---- MODULE Spec2Model ----
(***************************************************************************)
(* Model of the adaptive summarization pipeline of meeting-minutes         *)
(* (frontend/src-tauri/src/summary/processor.rs): rough_token_count,       *)
(* chunk_text, clean_llm_markdown_output and generate_meeting_summary.     *)
(*                                                                         *)
(* Strings are sequences of one-character strings.  Rust positions are     *)
(* 0-based: chars[p] of the source is chars[p + 1] here, and the slice     *)
(* chars[a..b] is SubSeq(chars, a + 1, b).                                 *)
(***************************************************************************)
EXTENDS Integers, Sequences, FiniteSets, TLC

VARIABLES
    \* ---- chunk_text, run on its own (SpecChunk) ----
    c_text,             \* argument text
    chunk_size_tokens,  \* argument chunk_size_tokens
    overlap_tokens,     \* argument overlap_tokens
    c_pc,               \* "idle" | "entry" | "loop" | "returned"
    current_pos,        \* local current_pos
    c_chunks,           \* local chunks (the returned vector once c_pc = "returned")
    spans,              \* history: <<current_pos, end_pos>> of every pushed chunk
    c_exit,             \* how chunk_text returned: "empty" | "single" | "break" | "cond"
    \* ---- generate_meeting_summary (Spec) ----
    provider,           \* argument provider
    text,               \* argument text
    custom_prompt,      \* argument custom_prompt
    template_id,        \* argument template_id
    token_threshold,    \* argument token_threshold
    language,           \* argument language
    pc,                 \* "idle" | "start" | "await_chunk" | "await_combine" |
                        \* "await_final" | "done" | "panicked": the .await the future
                        \* is suspended at, or how it ended
    strategy,           \* history: the branch of the strategy decision taken
    chunks,             \* local chunks
    idx,                \* loop variable i of the chunk loop
    chunk_summaries,    \* local chunk_summaries
    successful_chunk_count, \* local successful_chunk_count
    content_to_summarize,   \* local content_to_summarize
    calls,              \* history: every generate_summary call, in issue order
    template_log,       \* history: every templates::get_template call
    result,             \* the value the future resolved to
    \* ---- clean_llm_markdown_output, run on its own (SpecClean) ----
    cl_markdown,        \* argument markdown
    cl_pc,              \* "idle" | "entry" | "returned" | "again"
    cleaned,            \* the returned String
    cleaned_again,      \* the String returned for the argument cleaned
    \* ---- ChatService::ask_question (SpecChat) ----
    meeting_id,         \* argument meeting_id
    question,           \* argument question
    model_provider,     \* argument model_provider
    settings,           \* database: the settings row, if there is one
    meetings,           \* database: the ids of the meetings table
    chat_messages,      \* database: the chat_messages table, in insertion order
    chat_messages0,     \* history: the chat_messages table when the call started
    chat_pc,            \* "idle" | "start" | "await_..." | "done"
    chat_provider,      \* local provider
    answer,             \* local answer
    chat_result         \* the value the future resolved to

chunk_vars == <<c_text, chunk_size_tokens, overlap_tokens, c_pc, current_pos,
                c_chunks, spans, c_exit>>

input_vars == <<provider, text, custom_prompt, template_id, token_threshold, language>>

pipeline_vars == <<input_vars, pc, strategy, chunks, idx, chunk_summaries,
                   successful_chunk_count, content_to_summarize, calls,
                   template_log, result>>

clean_vars == <<cl_markdown, cl_pc, cleaned, cleaned_again>>

chat_args == <<meeting_id, question, model_provider>>

chat_db == <<settings, meetings, chat_messages, chat_messages0>>

chat_vars == <<chat_args, chat_db, chat_pc, chat_provider, answer, chat_result>>

vars == <<chunk_vars, pipeline_vars, clean_vars, chat_vars>>

Min(a, b) == IF a < b THEN a ELSE b
Max(a, b) == IF a > b THEN a ELSE b
SetMax(S) == CHOOSE x \in S : \A y \in S : y <= x

(***************************************************************************)
(* Bounds of the chunk_text runs.                                          *)
(***************************************************************************)
MaxTextLen == 9
MaxChunkTokens == 2
MaxOverlapTokens == 2

\* The characters of the bounded texts: a word character and a whitespace.
Alphabet == {"a", " "}

Texts(n) == UNION {[1..k -> Alphabet] : k \in 0..n}

\* Longer texts, up to MaxLongTextLen characters, with at most two whitespace
\* characters: long enough for three windows of the largest chunk size.
MaxLongTextLen == 14

LongTexts ==
    UNION { { [k \in 1..n |-> IF k \in {a, b} THEN " " ELSE "a"] :
                a \in 0..n, b \in 0..n } :
            n \in (MaxTextLen + 1)..MaxLongTextLen }

\* char::is_whitespace, on the characters the model uses
is_whitespace(c) == c \in {" ", "\n", "\t"}

\* (s.chars().count() as f64 / 4.0).ceil() as usize
rough_token_count(s) == (Len(s) + 3) \div 4

(***************************************************************************)
(* chunk_text                                                              *)
(***************************************************************************)
\* the overlap added to the window instead of taken off
step_plus_overlap(chunk_size_chars, overlap_chars) ==
    Max(chunk_size_chars + overlap_chars, 1)

\* the saturating subtraction without .max(1)
step_saturating_only(chunk_size_chars, overlap_chars) ==
    IF chunk_size_chars >= overlap_chars THEN chunk_size_chars - overlap_chars ELSE 0

\* the overlap taken for the step
step_is_overlap(chunk_size_chars, overlap_chars) == Max(overlap_chars, 1)

\* the step without the overlap taken off
step_whole_window(chunk_size_chars, overlap_chars) == Max(chunk_size_chars, 1)

\* chunk_size_chars.saturating_sub(overlap_chars).max(1)
step(chunk_size_chars, overlap_chars) ==
    Max(IF chunk_size_chars >= overlap_chars
        THEN chunk_size_chars - overlap_chars ELSE 0, 1)

\* the raw end taken one character too far
end_pos_inclusive(chars, pos, chunk_size_chars) ==
    LET total_chars == Len(chars)
        raw == Min(pos + chunk_size_chars + 1, total_chars)
        ws == {b \in (pos + 1)..raw : b < total_chars /\ is_whitespace(chars[b + 1])}
    IN  IF raw < total_chars /\ ws # {} THEN SetMax(ws) ELSE raw

\* the backward scan started one character before the raw end
end_pos_scan_before_raw(chars, pos, chunk_size_chars) ==
    LET total_chars == Len(chars)
        raw == Min(pos + chunk_size_chars, total_chars)
        ws == {b \in (pos + 1)..(raw - 1) : is_whitespace(chars[b + 1])}
    IN  IF raw < total_chars /\ ws # {} THEN SetMax(ws) ELSE raw

\* end_pos of one window: the raw end, moved back to the last whitespace
\* strictly after current_pos when the raw end is before the end of the text.
end_pos(chars, pos, chunk_size_chars) ==
    LET total_chars == Len(chars)
        raw == Min(pos + chunk_size_chars, total_chars)
        ws == {b \in (pos + 1)..raw : b < total_chars /\ is_whitespace(chars[b + 1])}
    IN  IF raw < total_chars /\ ws # {} THEN SetMax(ws) ELSE raw

\* the early return without the chunk_size_tokens == 0 test
nothing_to_chunk_empty_only(chars, size_tokens) == chars = << >>

\* if text.is_empty() || chunk_size_tokens == 0
nothing_to_chunk(chars, size_tokens) == chars = << >> \/ size_tokens = 0

\* the while loop, from window start pos: the spans of the chunks it pushes
RECURSIVE window_spans(_, _, _, _)
window_spans(chars, pos, chunk_size_chars, overlap_chars) ==
    IF pos < Len(chars)
    THEN LET e == end_pos(chars, pos, chunk_size_chars)
         IN  IF e = Len(chars)
             THEN << <<pos, e>> >>
             ELSE << <<pos, e>> >> \o
                  window_spans(chars, pos + step(chunk_size_chars, overlap_chars),
                               chunk_size_chars, overlap_chars)
    ELSE << >>

chunk_text(chars, size_tokens, ov_tokens) ==
    IF nothing_to_chunk(chars, size_tokens)
    THEN << >>
    ELSE IF Len(chars) <= size_tokens * 4
    THEN << chars >>
    ELSE LET sp == window_spans(chars, 0, size_tokens * 4, ov_tokens * 4)
         IN  [k \in 1..Len(sp) |-> SubSeq(chars, sp[k][1] + 1, sp[k][2])]

(***************************************************************************)
(* String operations of the standard library used by the source.          *)
(***************************************************************************)
starts_with(s, prefix) ==
    Len(s) >= Len(prefix) /\ SubSeq(s, 1, Len(prefix)) = prefix

ends_with(s, suffix) ==
    Len(s) >= Len(suffix) /\ SubSeq(s, Len(s) - Len(suffix) + 1, Len(s)) = suffix

\* the pattern occurs in s starting at (1-based) position p
occurs_at(s, pat, p) ==
    p >= 1 /\ p + Len(pat) - 1 <= Len(s) /\ SubSeq(s, p, p + Len(pat) - 1) = pat

contains(s, pat) == \E p \in 1..(Len(s) + 1) : occurs_at(s, pat, p)

\* str::trim
trim(s) ==
    LET keep == {p \in 1..Len(s) : ~is_whitespace(s[p])}
    IN  IF keep = {} THEN << >>
        ELSE SubSeq(s, CHOOSE p \in keep : \A q \in keep : p <= q, SetMax(keep))

\* str::replacen(from, to, n): the first n non-overlapping matches, left to right
RECURSIVE replacen(_, _, _, _)
replacen(s, from, to, n) ==
    IF n = 0 \/ Len(s) < Len(from) THEN s
    ELSE IF starts_with(s, from)
    THEN to \o replacen(SubSeq(s, Len(from) + 1, Len(s)), from, to, n - 1)
    ELSE <<Head(s)>> \o replacen(Tail(s), from, to, n)

\* str::replace(from, to): every match
replace(s, from, to) == replacen(s, from, to, Len(s) + 1)

\* [String]::join(sep)
RECURSIVE join(_, _)
join(items, sep) ==
    IF items = << >> THEN << >>
    ELSE IF Len(items) = 1 THEN items[1]
    ELSE items[1] \o sep \o join(Tail(items), sep)

Placeholder == <<"{", "}">>

(***************************************************************************)
(* clean_llm_markdown_output                                               *)
(***************************************************************************)
OpenTags == { <<"<", "t", "h", "i", "n", "k", ">">>,
              <<"<", "t", "h", "i", "n", "k", "i", "n", "g", ">">> }
CloseTags == { <<"<", "/", "t", "h", "i", "n", "k", ">">>,
               <<"<", "/", "t", "h", "i", "n", "k", "i", "n", "g", ">">> }

\* Regex (?s)<think(?:ing)?>.*?</think(?:ing)?> with replace_all(.., ""):
\* the leftmost opening tag that has a closing tag after it, up to the first
\* such closing tag; the search resumes after the match.
RECURSIVE remove_think_blocks(_)
remove_think_blocks(s) ==
    LET matches == {m \in (1..Len(s)) \X (1..Len(s)) :
                      \E o \in OpenTags : \E c \in CloseTags :
                         /\ occurs_at(s, o, m[1])
                         /\ m[2] >= m[1] + Len(o)
                         /\ occurs_at(s, c, m[2])}
    IN  IF matches = {} THEN s
        ELSE LET m == CHOOSE x \in matches :
                        \A y \in matches :
                            x[1] < y[1] \/ (x[1] = y[1] /\ x[2] <= y[2])
                 c == CHOOSE t \in CloseTags : occurs_at(s, t, m[2])
             IN  SubSeq(s, 1, m[1] - 1)
                    \o remove_think_blocks(SubSeq(s, m[2] + Len(c), Len(s)))

\* The backquote character of the code fences.  The TLA+ lexer rejects a
\* backquote inside a string, so the model writes it as "^", a character that
\* occurs in no other literal of the model.
BQ == "^"

\* const PREFIXES, in the order the loop tries them, and SUFFIX
PREFIXES == << <<BQ, BQ, BQ, "m", "a", "r", "k", "d", "o", "w", "n", "\n">>,
               <<BQ, BQ, BQ, "\n">> >>
SUFFIX == <<BQ, BQ, BQ>>

clean_llm_markdown_output(markdown) ==
    LET trimmed == trim(remove_think_blocks(markdown))
        hits == {k \in 1..Len(PREFIXES) :
                    starts_with(trimmed, PREFIXES[k]) /\ ends_with(trimmed, SUFFIX)}
    IN  IF hits = {} THEN trimmed
        ELSE LET prefix == PREFIXES[CHOOSE k \in hits : \A j \in hits : k <= j]
             IN  trim(SubSeq(trimmed, Len(prefix) + 1, Len(trimmed) - Len(SUFFIX)))

\* clean_llm_markdown_output is not running on its own
CleanIdle ==
    /\ cl_markdown = << >>
    /\ cl_pc = "idle"
    /\ cleaned = << >>
    /\ cleaned_again = << >>

(***************************************************************************)
(* ChatService::ask_question: one action per stretch of code between two   *)
(* .await points.  The database is the settings row, the meetings table    *)
(* and the chat_messages table; every query can fail with a sqlx error.    *)
(* The transcript, the summary and the language only feed the prompt of    *)
(* the LLM call and are not part of the state.                             *)
(***************************************************************************)
\* LLMProvider::from_str
from_str(name) ==
    LET known == [openai |-> "OpenAI", claude |-> "Claude", groq |-> "Groq",
                  ollama |-> "Ollama", openrouter |-> "OpenRouter"]
    IN  IF name \in DOMAIN known
        THEN [kind |-> "Ok", provider |-> known[name]]
        ELSE [kind |-> "Err", error |-> [msg |-> "Unsupported LLM provider", cause |-> name]]

\* a query outcome: the statement ran, or sqlx returned an error
QueryOutcomes == {"Ok", "SqlxError"}

\* format!("Failed to ...: {}", e)
Failed(what) == [kind |-> "Err", error |-> [msg |-> what, cause |-> "SqlxError"]]

\* get_api_key, once get_settings has answered with the row
get_api_key(row, prov) ==
    IF ~row.found
    THEN [kind |-> "Err", error |-> [msg |-> "No settings found", cause |-> "None"]]
    ELSE IF prov = "Ollama"
         THEN [kind |-> "Ok", api_key |-> ""]
         ELSE IF prov \in row.keys
              THEN [kind |-> "Ok", api_key |-> "key"]
              ELSE [kind |-> "Err", error |-> [msg |-> "API key not found for provider",
                                               cause |-> prov]]

\* the row save_message inserts and returns
ChatMessage(mid, role, content) == [meeting_id |-> mid, role |-> role, content |-> content]

\* ChatMessagesRepository::save_message on the table, q the outcome of its
\* INSERT: the table afterwards and the value returned
save_message(table, mid, role, content, q) ==
    IF mid = "" \/ role \notin {"user", "assistant"} \/ q = "SqlxError"
    THEN [kind |-> "Err", table |-> table]
    ELSE [kind |-> "Ok", table |-> Append(table, ChatMessage(mid, role, content)),
          message |-> ChatMessage(mid, role, content)]

\* the answers of the LLM
Answers == {"A1", "A2"}

\* ask_question is not running
ChatIdle ==
    /\ meeting_id = ""
    /\ question = ""
    /\ model_provider = ""
    /\ settings = [found |-> FALSE]
    /\ meetings = {}
    /\ chat_messages = << >>
    /\ chat_messages0 = << >>
    /\ chat_pc = "idle"
    /\ chat_provider = "none"
    /\ answer = ""
    /\ chat_result = [kind |-> "none"]


(***************************************************************************)
(* chunk_text as a step machine: entry, then one action per loop pass.     *)
(***************************************************************************)
\* generate_meeting_summary is not running
PipelineIdle ==
    /\ provider = "Ollama"
    /\ text = << >>
    /\ custom_prompt = << >>
    /\ template_id = << >>
    /\ token_threshold = 0
    /\ language = "en"
    /\ pc = "idle"
    /\ strategy = "none"
    /\ chunks = << >>
    /\ idx = 0
    /\ chunk_summaries = << >>
    /\ successful_chunk_count = 0
    /\ content_to_summarize = << >>
    /\ calls = << >>
    /\ template_log = << >>
    /\ result = [kind |-> "none"]

InitChunk ==
    /\ c_text \in Texts(MaxTextLen) \cup LongTexts
    /\ chunk_size_tokens \in 0..MaxChunkTokens
    /\ overlap_tokens \in 0..MaxOverlapTokens
    /\ c_pc = "entry"
    /\ current_pos = 0
    /\ c_chunks = << >>
    /\ spans = << >>
    /\ c_exit = "none"
    /\ PipelineIdle
    /\ CleanIdle
    /\ ChatIdle

ChunkTextEntry ==
    /\ c_pc = "entry"
    /\ UNCHANGED <<pipeline_vars, clean_vars, chat_vars>>
    /\ UNCHANGED <<c_text, chunk_size_tokens, overlap_tokens, current_pos>>
    /\ IF nothing_to_chunk(c_text, chunk_size_tokens)
       THEN /\ c_pc' = "returned"
            /\ c_exit' = "empty"
            /\ UNCHANGED <<c_chunks, spans>>
       ELSE IF Len(c_text) <= chunk_size_tokens * 4
       THEN /\ c_pc' = "returned"
            /\ c_exit' = "single"
            /\ c_chunks' = << c_text >>
            /\ spans' = << <<0, Len(c_text)>> >>
       ELSE /\ c_pc' = "loop"
            /\ UNCHANGED <<c_chunks, spans, c_exit>>

ChunkTextLoop ==
    /\ c_pc = "loop"
    /\ UNCHANGED <<pipeline_vars, clean_vars, chat_vars>>
    /\ UNCHANGED <<c_text, chunk_size_tokens, overlap_tokens>>
    /\ IF current_pos < Len(c_text)
       THEN LET e == end_pos(c_text, current_pos, chunk_size_tokens * 4)
            IN  /\ c_chunks' = Append(c_chunks, SubSeq(c_text, current_pos + 1, e))
                /\ spans' = Append(spans, <<current_pos, e>>)
                /\ IF e = Len(c_text)
                   THEN /\ c_pc' = "returned"
                        /\ c_exit' = "break"
                        /\ UNCHANGED current_pos
                   ELSE /\ current_pos' =
                              current_pos + step(chunk_size_tokens * 4, overlap_tokens * 4)
                        /\ UNCHANGED <<c_pc, c_exit>>
       ELSE /\ c_pc' = "returned"
            /\ c_exit' = "cond"
            /\ UNCHANGED <<current_pos, c_chunks, spans>>

NextChunk == ChunkTextEntry \/ ChunkTextLoop

SpecChunk == InitChunk /\ [][NextChunk]_vars

\* chunk_text is synchronous code: once called it keeps running.
SpecChunkFair == SpecChunk /\ WF_vars(NextChunk)

(***************************************************************************)
(* Collaborators of generate_meeting_summary.                              *)
(***************************************************************************)
\* enum LLMProvider
LLMProvider == {"OpenAI", "Claude", "Groq", "Ollama", "OpenRouter"}

Languages == {"en", "pt"}

\* prompts::get_chunk_system_prompt
get_chunk_system_prompt(lang) ==
    IF lang = "pt" THEN <<"R", "e", "s", "u", "m", "a">>
    ELSE <<"S", "u", "m", "m", "a", "r", "i", "z", "e">>

\* prompts::get_chunk_user_prompt_template
get_chunk_user_prompt_template(lang) ==
    IF lang = "pt" THEN <<"T", "r", "e", "c", "h", "o", ":", " ", "{", "}">>
    ELSE <<"C", "h", "u", "n", "k", ":", " ", "{", "}">>

\* prompts::get_combine_system_prompt
get_combine_system_prompt(lang) ==
    IF lang = "pt" THEN <<"C", "o", "m", "b", "i", "n", "a">>
    ELSE <<"C", "o", "m", "b", "i", "n", "e">>

\* prompts::get_combine_user_prompt_template
get_combine_user_prompt_template(lang) ==
    IF lang = "pt" THEN <<"P", "a", "r", "t", "e", "s", ":", " ", "{", "}">>
    ELSE <<"P", "a", "r", "t", "s", ":", " ", "{", "}">>

\* prompts::get_final_system_prompt_template
get_final_system_prompt_template(lang) ==
    IF lang = "pt"
    THEN <<"R", "e", "g", "r", "a", "s", ":", " ", "{", "}", "\n", "{", "}">>
    ELSE <<"R", "u", "l", "e", "s", ":", " ", "{", "}", "\n", "{", "}">>

\* The template identifiers of the runs: one the registry knows, one it does not.
KnownTemplateId == <<"d", "a", "i", "l", "y", "_", "s", "t", "a", "n", "d", "u", "p">>
UnknownTemplateId == <<"u", "n", "k", "n", "o", "w", "n", "_", "t", "p", "l">>

\* templates::get_template, with Template::to_markdown_structure and
\* Template::to_section_instructions of the template it returns
get_template(id) ==
    IF id = KnownTemplateId
    THEN [kind |-> "Ok",
          markdown_structure |-> <<"#", " ", "S", "e", "c", "t", "i", "o", "n", "s">>,
          section_instructions |-> <<"F", "i", "l", "l", " ", "e", "a", "c", "h", " ",
                                     "s", "e", "c", "t", "i", "o", "n">>]
    ELSE [kind |-> "Err", error |-> <<"n", "o", "t", " ", "f", "o", "u", "n", "d">>]

\* What llm_client::generate_summary can resolve to, per kind of call.
TransportError ==
    <<"c", "o", "n", "n", "e", "c", "t", "i", "o", "n", " ", "r", "e", "f", "u", "s", "e", "d">>

SummaryTexts == { <<"S", "1">>, <<"S", "2">> }

RawMarkdowns ==
    { <<"#", " ", "S", "t", "a", "n", "d", "u", "p">>,
      <<"<", "t", "h", "i", "n", "k", ">", "p", "l", "a", "n", "<", "/", "t", "h", "i",
        "n", "k", ">", "\n", BQ, BQ, BQ, "m", "a", "r", "k", "d", "o", "w", "n", "\n",
        "#", " ", "S", "t", "a", "n", "d", "u", "p", "\n", BQ, BQ, BQ>>,
      <<" ", "#", " ", "N", "o", "t", "e", "s", " ", "\n">> }

generate_summary(role) ==
    {[kind |-> "Ok", text |-> t] :
        t \in IF role = "final" THEN RawMarkdowns ELSE SummaryTexts}
    \cup {[kind |-> "Err", error |-> TransportError]}

(***************************************************************************)
(* generate_meeting_summary: the pure pieces.                              *)
(***************************************************************************)
\* "Reserve 300 tokens for prompt overhead", and the overlap passed to chunk_text
PromptOverheadTokens == 300
ChunkOverlapTokens == 100

\* the decision with an inclusive comparison
single_pass_inclusive(prov, total_tokens, threshold) ==
    prov # "Ollama" \/ total_tokens <= threshold

\* the condition of the strategy decision
single_pass(prov, total_tokens, threshold) ==
    prov # "Ollama" \/ total_tokens < threshold

\* The builds of the crate: with overflow checks (debug) and without (release).
Builds == {"debug", "release"}

\* the usize subtraction token_threshold - 300 goes below zero
budget_underflows(threshold) == threshold < PromptOverheadTokens

\* the whole threshold taken as the chunk budget, nothing reserved
split_transcript_no_reserve(chars, threshold) ==
    chunk_text(chars, threshold, ChunkOverlapTokens)

\* chunk_text(text, token_threshold - 300, 100), for the runs that get past
\* the subtraction.  When it underflows without overflow checks, the budget
\* wraps to 2^64 - 300 + token_threshold and chunk_size_chars to
\* 2^64 - 4 * (300 - token_threshold): beyond the integers TLC represents and
\* beyond the length of any text, so chunk_text returns no chunk for an
\* empty text and the whole text as its single chunk otherwise.
split_transcript(chars, threshold) ==
    IF budget_underflows(threshold)
    THEN IF chars = << >> THEN << >> ELSE <<chars>>
    ELSE chunk_text(chars, threshold - PromptOverheadTokens, ChunkOverlapTokens)

\* the chunks taken from the back
chunk_at_reversed(chunk_list, i) == chunk_list[Len(chunk_list) - i]

\* for (i, chunk) in chunks.iter().enumerate(): the chunk of pass i
chunk_at(chunk_list, i) == chunk_list[i + 1]

\* the match with a failed call counted as an (empty) summary
push_summary_always(summaries, r) ==
    Append(summaries, IF r.kind = "Ok" THEN r.text ELSE << >>)

\* the match on the chunk call's result: Ok pushes the summary, Err only logs
push_summary(summaries, r) ==
    IF r.kind = "Ok" THEN Append(summaries, r.text) ELSE summaries

\* combining a single summary too
needs_combine_any(summaries) == Len(summaries) >= 1

\* if chunk_summaries.len() > 1
needs_combine(summaries) == Len(summaries) > 1

\* the raw output returned as it came
final_markdown_raw(raw_markdown) == raw_markdown

\* let final_markdown = clean_llm_markdown_output(&raw_markdown)
final_markdown(raw_markdown) == clean_llm_markdown_output(raw_markdown)

LlmCall(role, system, user) ==
    [role |-> role, system |-> system, user |-> user, result |-> [kind |-> "pending"]]

\* user_prompt_template_chunk.replace("{}", chunk.as_str())
user_prompt_chunk(lang, chunk) ==
    replace(get_chunk_user_prompt_template(lang), Placeholder, chunk)

\* chunk_summaries.join("\n---\n")
combined_text(summaries) == join(summaries, <<"\n", "-", "-", "-", "\n">>)

\* user_prompt_combine_template.replace("{}", &combined_text)
user_prompt_combine(lang, summaries) ==
    replace(get_combine_user_prompt_template(lang), Placeholder, combined_text(summaries))

\* template_str.replacen("{}", &section_instructions, 1)
\*             .replacen("{}", &clean_template_markdown, 1)
final_system_prompt(lang, template) ==
    replacen(replacen(get_final_system_prompt_template(lang), Placeholder,
                      template.section_instructions, 1),
             Placeholder, template.markdown_structure, 1)

\* the user context written inside the transcript tags
final_user_prompt_context_inside(content, custom) ==
    <<"\n", "<", "t", "r", "a", "n", "s", "c", "r", "i", "p", "t", "_", "c", "h", "u",
      "n", "k", "s", ">", "\n">>
    \o custom \o content
    \o <<"\n", "<", "/", "t", "r", "a", "n", "s", "c", "r", "i", "p", "t", "_", "c", "h",
         "u", "n", "k", "s", ">", "\n">>

\* the format! of the final user prompt and the optional user context
final_user_prompt(content, custom) ==
    <<"\n", "<", "t", "r", "a", "n", "s", "c", "r", "i", "p", "t", "_", "c", "h", "u",
      "n", "k", "s", ">", "\n">>
    \o content
    \o <<"\n", "<", "/", "t", "r", "a", "n", "s", "c", "r", "i", "p", "t", "_", "c", "h",
         "u", "n", "k", "s", ">", "\n">>
    \o (IF custom # << >>
        THEN <<"\n", "\n", "U", "s", "e", "r", " ", "P", "r", "o", "v", "i", "d", "e", "d",
               " ", "C", "o", "n", "t", "e", "x", "t", ":", "\n", "\n", "<", "u", "s", "e",
               "r", "_", "c", "o", "n", "t", "e", "x", "t", ">", "\n">>
             \o custom
             \o <<"\n", "<", "/", "u", "s", "e", "r", "_", "c", "o", "n", "t", "e", "x",
                  "t", ">">>
        ELSE << >>)

\* the message without the identifier
template_error_without_id(id, e) ==
    <<"F", "a", "i", "l", "e", "d", " ", "t", "o", " ", "l", "o", "a", "d", " ", "t", "e",
      "m", "p", "l", "a", "t", "e", ":", " ">> \o e

\* format!("Failed to load template '{}': {}", template_id, e)
template_error(id, e) ==
    <<"F", "a", "i", "l", "e", "d", " ", "t", "o", " ", "l", "o", "a", "d", " ", "t", "e",
      "m", "p", "l", "a", "t", "e", " ", "'">>
    \o id \o <<"'", ":", " ">> \o e

\* the total failure reported as the transport's error
NoChunksError_AsTransport == TransportError

NoChunksError ==
    <<"M", "u", "l", "t", "i", "-", "l", "e", "v", "e", "l", " ", "s", "u", "m", "m", "a",
      "r", "i", "z", "a", "t", "i", "o", "n", " ", "f", "a", "i", "l", "e", "d", ":", " ",
      "N", "o", " ", "c", "h", "u", "n", "k", "s", " ", "w", "e", "r", "e", " ", "p", "r",
      "o", "c", "e", "s", "s", "e", "d", " ", "s", "u", "c", "c", "e", "s", "s", "f", "u",
      "l", "l", "y", ".">>

Ok(markdown, count) == [kind |-> "Ok", markdown |-> markdown, chunk_count |-> count]
Err(e) == [kind |-> "Err", error |-> e]

\* the call log with the response of the call in flight (the last one) filled in
Answered(log, r) == [log EXCEPT ![Len(log)].result = r]

(***************************************************************************)
(* generate_meeting_summary: one action per stretch of code between two    *)
(* .await points.  The arguments client, model_name, api_key and           *)
(* ollama_endpoint are handed unchanged to every generate_summary call and *)
(* are not part of the state.                                              *)
(***************************************************************************)
\* From "Generating final markdown report" to the .await of the final call:
\* resolve the template, build the prompts, issue the final call.
FinalStage(content, count, log) ==
    /\ content_to_summarize' = content
    /\ successful_chunk_count' = count
    /\ LET t == get_template(template_id)
       IN  /\ template_log' = Append(template_log,
                                [template_id |-> template_id,
                                 after_calls |-> Len(log),
                                 ok |-> t.kind = "Ok"])
           /\ IF t.kind = "Ok"
              THEN /\ calls' = Append(log, LlmCall("final",
                                                   final_system_prompt(language, t),
                                                   final_user_prompt(content, custom_prompt)))
                   /\ pc' = "await_final"
                   /\ UNCHANGED result
              ELSE /\ calls' = log
                   /\ pc' = "done"
                   /\ result' = Err(template_error(template_id, t.error))

\* the return of the "No chunks were processed successfully" error
NoChunksReturn(log) ==
    /\ calls' = log
    /\ pc' = "done"
    /\ result' = Err(NoChunksError)
    /\ UNCHANGED <<successful_chunk_count, content_to_summarize, template_log>>

\* After the chunk loop: the empty check, the count, and the combination.
AfterChunkLoop(summaries, log) ==
    IF summaries = << >>
    THEN /\ chunk_summaries' = summaries
         /\ NoChunksReturn(log)
    ELSE IF needs_combine(summaries)
    THEN /\ chunk_summaries' = summaries
         /\ successful_chunk_count' = Len(summaries)
         /\ calls' = Append(log, LlmCall("combine",
                                         get_combine_system_prompt(language),
                                         user_prompt_combine(language, summaries)))
         /\ pc' = "await_combine"
         /\ UNCHANGED <<content_to_summarize, template_log, result>>
    ELSE \* chunk_summaries.remove(0)
         /\ chunk_summaries' = Tail(summaries)
         /\ FinalStage(Head(summaries), Len(summaries), log)

\* From the entry to the first .await (or to the return).
Begin ==
    /\ pc = "start"
    /\ UNCHANGED <<chunk_vars, clean_vars, chat_vars, input_vars>>
    /\ IF single_pass(provider, rough_token_count(text), token_threshold)
       THEN /\ strategy' = "SinglePass"
            /\ UNCHANGED <<chunks, idx, chunk_summaries>>
            /\ FinalStage(text, 1, calls)
       ELSE /\ strategy' = "MultiLevel"
            /\ \E build \in Builds :
                 IF budget_underflows(token_threshold) /\ build = "debug"
                 THEN \* panic: attempt to subtract with overflow
                      /\ pc' = "panicked"
                      /\ UNCHANGED <<chunks, idx, chunk_summaries, successful_chunk_count,
                                     content_to_summarize, calls, template_log, result>>
                 ELSE /\ chunks' = split_transcript(text, token_threshold)
                      /\ idx' = 0
                      /\ IF chunks' = << >>
                         THEN AfterChunkLoop(chunk_summaries, calls)
                         ELSE /\ calls' = Append(calls, LlmCall("chunk",
                                                  get_chunk_system_prompt(language),
                                                  user_prompt_chunk(language,
                                                                    chunk_at(chunks', 0))))
                              /\ pc' = "await_chunk"
                              /\ UNCHANGED <<chunk_summaries, successful_chunk_count,
                                             content_to_summarize, template_log, result>>

\* The call for chunk i resolves: the match arms, then the next pass of the
\* loop or, after the last chunk, the code up to the next .await.
ChunkResponse ==
    /\ pc = "await_chunk"
    /\ UNCHANGED <<chunk_vars, clean_vars, chat_vars, input_vars, strategy, chunks>>
    /\ \E r \in generate_summary("chunk") :
          LET log == Answered(calls, r)
              summaries == push_summary(chunk_summaries, r)
          IN  /\ idx' = idx + 1
              /\ IF idx + 1 < Len(chunks)
                 THEN /\ chunk_summaries' = summaries
                      /\ calls' = Append(log, LlmCall("chunk",
                                                      get_chunk_system_prompt(language),
                                                      user_prompt_chunk(language,
                                                                        chunk_at(chunks,
                                                                                 idx + 1))))
                      /\ UNCHANGED <<pc, successful_chunk_count, content_to_summarize,
                                     template_log, result>>
                 ELSE AfterChunkLoop(summaries, log)

\* a failed combine call falling back to the joined chunk summaries
CombineResponse_Fallback ==
    /\ pc = "await_combine"
    /\ UNCHANGED <<chunk_vars, clean_vars, chat_vars, input_vars, strategy, chunks,
                   idx, chunk_summaries>>
    /\ \E r \in generate_summary("combine") :
          FinalStage(IF r.kind = "Ok" THEN r.text ELSE combined_text(chunk_summaries),
                     successful_chunk_count, Answered(calls, r))

\* The combine call resolves: `?` returns its error, otherwise the final stage.
CombineResponse ==
    /\ pc = "await_combine"
    /\ UNCHANGED <<chunk_vars, clean_vars, chat_vars, input_vars, strategy, chunks,
                   idx, chunk_summaries>>
    /\ \E r \in generate_summary("combine") :
          IF r.kind = "Ok"
          THEN FinalStage(r.text, successful_chunk_count, Answered(calls, r))
          ELSE /\ calls' = Answered(calls, r)
               /\ pc' = "done"
               /\ result' = Err(r.error)
               /\ UNCHANGED <<successful_chunk_count, content_to_summarize, template_log>>

\* The final call resolves: `?` returns its error, otherwise clean and return.
FinalResponse ==
    /\ pc = "await_final"
    /\ UNCHANGED <<chunk_vars, clean_vars, chat_vars, input_vars, strategy, chunks,
                   idx, chunk_summaries,
                   successful_chunk_count, content_to_summarize, template_log>>
    /\ \E r \in generate_summary("final") :
          /\ calls' = Answered(calls, r)
          /\ pc' = "done"
          /\ result' = IF r.kind = "Ok"
                       THEN Ok(final_markdown(r.text), successful_chunk_count)
                       ELSE Err(r.error)

(***************************************************************************)
(* The runs of generate_meeting_summary.                                   *)
(***************************************************************************)
\* A token_threshold above the reserved overhead, for the multi-level runs.
HighThreshold == 700

\* The thresholds of the runs: 0 (the usize subtraction token_threshold - 300
\* underflows), the reserved overhead itself (a chunk budget of 0 tokens) and
\* HighThreshold.
Thresholds == {0, PromptOverheadTokens, HighThreshold}

\* a text of n characters with whitespace exactly at the (0-based) positions ws
\* and running letters elsewhere
Letters == <<"a", "b", "c", "d", "e", "f", "g", "h", "i", "j", "k">>
MkText(n, ws) ==
    [k \in 1..n |-> IF (k - 1) \in ws THEN " " ELSE Letters[(k % Len(Letters)) + 1]]

\* Transcripts: empty, short, one character below and exactly at each threshold
\* estimate, and two long ones (one without whitespace, one whose only
\* whitespace lies early in the first window).
Transcripts ==
    { << >>, MkText(5, {2}) }
    \cup { MkText(4 * t - 4, {}) : t \in Thresholds }
    \cup { MkText(4 * t - 3, {}) : t \in Thresholds }
    \cup { MkText(4 * HighThreshold + 200, {}),
           MkText(4 * HighThreshold + 200, {1000}) }

CustomPrompts ==
    { << >>, <<"T", "e", "a", "m", " ", "c", "o", "n", "t", "e", "x", "t">> }

\* chunk_text is not running on its own
ChunkIdle ==
    /\ c_text = << >>
    /\ chunk_size_tokens = 0
    /\ overlap_tokens = 0
    /\ c_pc = "idle"
    /\ current_pos = 0
    /\ c_chunks = << >>
    /\ spans = << >>
    /\ c_exit = "none"

Init ==
    /\ ChunkIdle
    /\ CleanIdle
    /\ ChatIdle
    /\ provider \in LLMProvider
    /\ text \in Transcripts
    /\ custom_prompt \in CustomPrompts
    /\ template_id \in {KnownTemplateId, UnknownTemplateId}
    /\ token_threshold \in Thresholds
    /\ language \in Languages
    /\ pc = "start"
    /\ strategy = "none"
    /\ chunks = << >>
    /\ idx = 0
    /\ chunk_summaries = << >>
    /\ successful_chunk_count = 0
    /\ content_to_summarize = << >>
    /\ calls = << >>
    /\ template_log = << >>
    /\ result = [kind |-> "none"]

Next == Begin \/ ChunkResponse \/ CombineResponse \/ FinalResponse

Spec == Init /\ [][Next]_vars

(***************************************************************************)
(* clean_llm_markdown_output on its own: one call, then a second call on   *)
(* the String the first one returned.                                      *)
(***************************************************************************)
MaxPieces == 5

\* the pieces raw outputs are put together from: whole and split think
\* tags, and fence markers
ThinkPieces == { <<"<", "t", "h", "i">>,
                 <<"<", "t", "h", "i", "n", "k", ">">>,
                 <<"<", "/", "t", "h", "i", "n", "k", ">">>,
                 <<"n", "k", ">">>,
                 <<"a">> }
FencePieces == { <<BQ, BQ, BQ, "\n">>, <<BQ, BQ, BQ>>, <<"a">>, <<" ">> }

RECURSIVE concat(_)
concat(ps) == IF ps = << >> THEN << >> ELSE Head(ps) \o concat(Tail(ps))

LlmOutputs ==
    RawMarkdowns \cup
    UNION { { concat(ps) : ps \in [1..n -> A] } :
            n \in 0..MaxPieces, A \in {ThinkPieces, FencePieces} }

InitClean ==
    /\ cl_markdown \in LlmOutputs
    /\ cl_pc = "entry"
    /\ cleaned = << >>
    /\ cleaned_again = << >>
    /\ ChunkIdle
    /\ PipelineIdle
    /\ ChatIdle

CleanCall ==
    /\ cl_pc = "entry"
    /\ cleaned' = clean_llm_markdown_output(cl_markdown)
    /\ cl_pc' = "returned"
    /\ UNCHANGED <<chunk_vars, pipeline_vars, chat_vars, cl_markdown, cleaned_again>>

CleanAgain ==
    /\ cl_pc = "returned"
    /\ cleaned_again' = clean_llm_markdown_output(cleaned)
    /\ cl_pc' = "again"
    /\ UNCHANGED <<chunk_vars, pipeline_vars, chat_vars, cl_markdown, cleaned>>

NextClean == CleanCall \/ CleanAgain

SpecClean == InitClean /\ [][NextClean]_vars

(***************************************************************************)
(* The steps and the runs of ChatService::ask_question.                    *)
(***************************************************************************)
\* return Err(..) through the ? operator
ChatFail(err) ==
    /\ chat_pc' = "done"
    /\ chat_result' = err

\* 1. validate the provider, then get_api_key awaits get_settings
AskQuestion ==
    /\ chat_pc = "start"
    /\ LET p == from_str(model_provider)
       IN  IF p.kind = "Err"
           THEN /\ ChatFail(p)
                /\ UNCHANGED chat_provider
           ELSE /\ chat_provider' = p.provider
                /\ chat_pc' = "await_settings"
                /\ UNCHANGED chat_result
    /\ UNCHANGED <<chunk_vars, pipeline_vars, clean_vars, chat_args, chat_db, answer>>

\* 2. get_settings answers; for Ollama the endpoint is fetched next
SettingsResponse ==
    /\ chat_pc = "await_settings"
    /\ \E q \in QueryOutcomes :
          IF q = "SqlxError"
          THEN ChatFail(Failed("Failed to get settings"))
          ELSE LET k == get_api_key(settings, chat_provider)
               IN  IF k.kind = "Err"
                   THEN ChatFail(k)
                   ELSE /\ chat_pc' = IF chat_provider = "Ollama"
                                      THEN "await_endpoint" ELSE "await_meeting"
                        /\ UNCHANGED chat_result
    /\ UNCHANGED <<chunk_vars, pipeline_vars, clean_vars, chat_args, chat_db,
                   chat_provider, answer>>

\* 3. get_ollama_endpoint answers; .ok().flatten() drops its error
EndpointResponse ==
    /\ chat_pc = "await_endpoint"
    /\ chat_pc' = "await_meeting"
    /\ UNCHANGED <<chunk_vars, pipeline_vars, clean_vars, chat_args, chat_db,
                   chat_provider, answer, chat_result>>

\* 4. get_meeting answers
MeetingResponse ==
    /\ chat_pc = "await_meeting"
    /\ \E q \in QueryOutcomes :
          IF q = "SqlxError"
          THEN ChatFail(Failed("Failed to get meeting"))
          ELSE IF meeting_id \notin meetings
               THEN ChatFail([kind |-> "Err",
                              error |-> [msg |-> "Meeting not found", cause |-> meeting_id]])
               ELSE /\ chat_pc' = "await_transcripts"
                    /\ UNCHANGED chat_result
    /\ UNCHANGED <<chunk_vars, pipeline_vars, clean_vars, chat_args, chat_db,
                   chat_provider, answer>>

\* 5. get_transcripts answers
TranscriptsResponse ==
    /\ chat_pc = "await_transcripts"
    /\ \E q \in QueryOutcomes :
          IF q = "SqlxError"
          THEN ChatFail(Failed("Failed to get transcripts"))
          ELSE /\ chat_pc' = "await_summary"
               /\ UNCHANGED chat_result
    /\ UNCHANGED <<chunk_vars, pipeline_vars, clean_vars, chat_args, chat_db,
                   chat_provider, answer>>

\* 6. get_summary_data_for_meeting answers
SummaryResponse ==
    /\ chat_pc = "await_summary"
    /\ \E q \in QueryOutcomes :
          IF q = "SqlxError"
          THEN ChatFail(Failed("Failed to get summary"))
          ELSE /\ chat_pc' = "await_history"
               /\ UNCHANGED chat_result
    /\ UNCHANGED <<chunk_vars, pipeline_vars, clean_vars, chat_args, chat_db,
                   chat_provider, answer>>

\* 7. get_messages answers; 8. the context is built
HistoryResponse ==
    /\ chat_pc = "await_history"
    /\ \E q \in QueryOutcomes :
          IF q = "SqlxError"
          THEN ChatFail(Failed("Failed to get chat history"))
          ELSE /\ chat_pc' = "await_language"
               /\ UNCHANGED chat_result
    /\ UNCHANGED <<chunk_vars, pipeline_vars, clean_vars, chat_args, chat_db,
                   chat_provider, answer>>

\* 9. get_language answers (it has a default for every failure); 10. the
\* system prompt is built and 11. the LLM call is issued
LanguageResponse ==
    /\ chat_pc = "await_language"
    /\ chat_pc' = "await_llm"
    /\ UNCHANGED <<chunk_vars, pipeline_vars, clean_vars, chat_args, chat_db,
                   chat_provider, answer, chat_result>>

\* 11. generate_summary answers; 12. save_message for the user is issued
AnswerResponse ==
    /\ chat_pc = "await_llm"
    /\ \/ /\ ChatFail([kind |-> "Err", error |-> [msg |-> "LLM", cause |-> "TransportError"]])
          /\ UNCHANGED answer
       \/ \E a \in Answers :
             /\ answer' = a
             /\ chat_pc' = "await_save_user"
             /\ UNCHANGED chat_result
    /\ UNCHANGED <<chunk_vars, pipeline_vars, clean_vars, chat_args, chat_db, chat_provider>>

\* 12. the INSERT of the user message answers; 13. save_message for the
\* assistant is issued
SaveUserResponse ==
    /\ chat_pc = "await_save_user"
    /\ \E q \in QueryOutcomes :
          LET saved == save_message(chat_messages, meeting_id, "user", question, q)
          IN  /\ chat_messages' = saved.table
              /\ IF saved.kind = "Err"
                 THEN ChatFail(Failed("Failed to save user message"))
                 ELSE /\ chat_pc' = "await_save_assistant"
                      /\ UNCHANGED chat_result
    /\ UNCHANGED <<chunk_vars, pipeline_vars, clean_vars, chat_args, settings,
                   meetings, chat_messages0, chat_provider, answer>>

\* 13. the INSERT of the assistant message answers; Ok(AskQuestionResponse)
SaveAssistantResponse ==
    /\ chat_pc = "await_save_assistant"
    /\ \E q \in QueryOutcomes :
          LET saved == save_message(chat_messages, meeting_id, "assistant", answer, q)
          IN  /\ chat_messages' = saved.table
              /\ IF saved.kind = "Err"
                 THEN ChatFail(Failed("Failed to save assistant message"))
                 ELSE /\ chat_pc' = "done"
                      /\ chat_result' = [kind |-> "Ok", answer |-> answer,
                                         user_message |->
                                             ChatMessage(meeting_id, "user", question),
                                         assistant_message |-> saved.message]
    /\ UNCHANGED <<chunk_vars, pipeline_vars, clean_vars, chat_args, settings,
                   meetings, chat_messages0, chat_provider, answer>>

\* the stored histories a question arrives to
Histories ==
    { << >>,
      <<ChatMessage("m1", "user", "Q0"), ChatMessage("m1", "assistant", "A0")>> }

InitChat ==
    /\ meeting_id \in {"m1", "m2", ""}
    /\ question \in {"Q1", "Q2"}
    /\ model_provider \in {"openai", "ollama", "gpt"}
    /\ settings \in {[found |-> FALSE], [found |-> TRUE, keys |-> {}],
                     [found |-> TRUE, keys |-> {"OpenAI"}]}
    /\ meetings = {"m1"}
    /\ chat_messages \in Histories
    /\ chat_messages0 = chat_messages
    /\ chat_pc = "start"
    /\ chat_provider = "none"
    /\ answer = ""
    /\ chat_result = [kind |-> "none"]
    /\ ChunkIdle
    /\ PipelineIdle
    /\ CleanIdle

NextChat ==
    \/ AskQuestion \/ SettingsResponse \/ EndpointResponse \/ MeetingResponse
    \/ TranscriptsResponse \/ SummaryResponse \/ HistoryResponse
    \/ LanguageResponse \/ AnswerResponse \/ SaveUserResponse
    \/ SaveAssistantResponse

SpecChat == InitChat /\ [][NextChat]_vars

(***************************************************************************)
(* C1: for non-empty text and chunk_size_tokens > 0, every character       *)
(* position of the text lies in the span of at least one returned chunk.   *)
(***************************************************************************)
Covered(p) == \E k \in 1..Len(spans) : spans[k][1] <= p /\ p < spans[k][2]

C1_ChunksCoverText ==
    (c_pc = "returned" /\ c_text # << >> /\ chunk_size_tokens > 0)
        => \A p \in 0..(Len(c_text) - 1) : Covered(p)

(***************************************************************************)
(* What the call history of a generate_meeting_summary run shows.          *)
(***************************************************************************)
CallsOf(role) == LET Is(c) == c.role = role IN SelectSeq(calls, Is)

ChunkCalls == CallsOf("chunk")

\* the summaries returned by the chunk calls that succeeded, in call order
SucceededSummaries ==
    LET IsOk(c) == c.result.kind = "Ok"
        ok == SelectSeq(ChunkCalls, IsOk)
    IN  [k \in 1..Len(ok) |-> ok[k].result.text]

\* the positions in the call history of the calls of a role
Positions(role) == {k \in 1..Len(calls) : calls[k].role = role}

\* the chunk loop of a MultiLevel run is over
LoopOver == strategy = "MultiLevel" /\ pc \in {"await_combine", "await_final", "done"}

\* prompt is template with body in the place of its placeholder
Embeds(prompt, template, body) ==
    \E p \in 1..Len(template) :
        /\ occurs_at(template, Placeholder, p)
        /\ prompt = SubSeq(template, 1, p - 1) \o body
                        \o SubSeq(template, p + Len(Placeholder), Len(template))

Separator == <<"\n", "-", "-", "-", "\n">>

TranscriptOpen ==
    <<"\n", "<", "t", "r", "a", "n", "s", "c", "r", "i", "p", "t", "_", "c", "h", "u",
      "n", "k", "s", ">", "\n">>
TranscriptClose ==
    <<"\n", "<", "/", "t", "r", "a", "n", "s", "c", "r", "i", "p", "t", "_", "c", "h",
      "u", "n", "k", "s", ">", "\n">>

\* ceil(n / 4), by its defining inequalities
CeilQuarter(n) == CHOOSE q \in 0..n : 4 * q >= n /\ 4 * (q - 1) < n

(***************************************************************************)
(* C2: in a MultiLevel run where at least one chunk call succeeded, the    *)
(* chunk count (kept and returned) is the number of chunk calls that       *)
(* succeeded, and what goes on to combination is exactly the summaries of  *)
(* the successful calls in chunk order: joined in the one combine prompt   *)
(* when there are several, the summary itself when there is one.           *)
(***************************************************************************)
C2_PartialSuccess ==
    (LoopOver /\ Len(SucceededSummaries) >= 1) =>
        /\ successful_chunk_count = Len(SucceededSummaries)
        /\ (result.kind = "Ok" => result.chunk_count = Len(SucceededSummaries))
        /\ \A k \in 1..Len(ChunkCalls) :
              Embeds(ChunkCalls[k].user, get_chunk_user_prompt_template(language),
                     chunks[k])
        /\ IF Len(SucceededSummaries) >= 2
           THEN /\ Len(CallsOf("combine")) = 1
                /\ Embeds(CallsOf("combine")[1].user,
                          get_combine_user_prompt_template(language),
                          join(SucceededSummaries, Separator))
           ELSE content_to_summarize = SucceededSummaries[1]

\* three chunks, only the call for chunk 2 failed, and the run returned Ok with 2
C2_Witness ==
    /\ strategy = "MultiLevel" /\ pc = "done" /\ result.kind = "Ok"
    /\ Len(chunks) = 3 /\ Len(ChunkCalls) = 3
    /\ ChunkCalls[1].result.kind = "Ok"
    /\ ChunkCalls[2].result.kind = "Err"
    /\ ChunkCalls[3].result.kind = "Ok"
    /\ result.chunk_count = 2

(***************************************************************************)
(* C3: in a MultiLevel run where no chunk call succeeded, the run has      *)
(* returned the error "No chunks were processed successfully" (no          *)
(* markdown), the chunk calls are the only LLM calls it issued, and the    *)
(* template was never resolved.                                            *)
(***************************************************************************)
NoChunksText ==
    <<"N", "o", " ", "c", "h", "u", "n", "k", "s", " ", "w", "e", "r", "e", " ", "p", "r",
      "o", "c", "e", "s", "s", "e", "d", " ", "s", "u", "c", "c", "e", "s", "s", "f", "u",
      "l", "l", "y">>

C3_AllChunksFail ==
    (LoopOver /\ SucceededSummaries = << >>) =>
        /\ pc = "done"
        /\ result.kind = "Err"
        /\ contains(result.error, NoChunksText)
        /\ Len(calls) = Len(chunks)
        /\ \A k \in 1..Len(calls) : calls[k].role = "chunk"
        /\ template_log = << >>

\* three chunk calls were issued and all three failed
C3_Witness ==
    /\ LoopOver /\ Len(chunks) = 3 /\ Len(ChunkCalls) = 3
    /\ \A k \in 1..3 : ChunkCalls[k].result.kind = "Err"

(***************************************************************************)
(* C4: the SinglePass branch is taken exactly when the provider is not     *)
(* Ollama or ceil(character_count / 4) is strictly below token_threshold.  *)
(***************************************************************************)
C4_StrategySelection ==
    strategy # "none" =>
        (strategy = "SinglePass"
            <=> (provider # "Ollama" \/ CeilQuarter(Len(text)) < token_threshold))

\* Ollama with an estimate of token_threshold - 1 took the SinglePass branch
C4_Witness ==
    /\ provider = "Ollama"
    /\ CeilQuarter(Len(text)) = token_threshold - 1
    /\ strategy = "SinglePass"

(***************************************************************************)
(* C5 as stated: a finished SinglePass run has issued exactly one LLM      *)
(* call, the final call, whose user prompt embeds the raw transcript, and  *)
(* a successful one returns chunk_count 1.                                 *)
(***************************************************************************)
C5_SinglePassOneCall ==
    (strategy = "SinglePass" /\ pc = "done") =>
        /\ Len(calls) = 1
        /\ calls[1].role = "final"
        /\ starts_with(calls[1].user, TranscriptOpen \o text \o TranscriptClose)
        /\ (result.kind = "Ok" => result.chunk_count = 1)

(***************************************************************************)
(* C5, amended: a SinglePass run issues no chunk and no combine call and   *)
(* at most one LLM call; a finished one has issued exactly one, the final  *)
(* call with the raw transcript in its user prompt, when the template      *)
(* resolved, and none when it did not; a successful one returns            *)
(* chunk_count 1.                                                          *)
(***************************************************************************)
C5_SinglePassAtMostOneCall ==
    strategy = "SinglePass" =>
        /\ Len(calls) <= 1
        /\ \A k \in 1..Len(calls) :
              /\ calls[k].role = "final"
              /\ starts_with(calls[k].user, TranscriptOpen \o text \o TranscriptClose)
        /\ Len(calls) = (IF get_template(template_id).kind = "Ok" THEN 1 ELSE 0)
        /\ (result.kind = "Ok" => result.chunk_count = 1)

\* a long transcript went through SinglePass and the run returned Ok
C5_Witness ==
    /\ strategy = "SinglePass" /\ pc = "done" /\ result.kind = "Ok"
    /\ Len(text) > 4 * token_threshold
    /\ Len(calls) = 1

(***************************************************************************)
(* C6: in a MultiLevel run the chunk calls are the first calls of the run, *)
(* the k-th of them carries chunk k, only the last call issued can be      *)
(* unanswered, and once the loop is over there is exactly one chunk call   *)
(* per chunk, whatever calls failed.                                       *)
(***************************************************************************)
C6_ChunkCallsInOrder ==
    strategy = "MultiLevel" =>
        /\ Len(ChunkCalls) <= Len(chunks)
        /\ \A k \in 1..Len(ChunkCalls) :
              /\ calls[k].role = "chunk"
              /\ Embeds(calls[k].user, get_chunk_user_prompt_template(language),
                        chunks[k])
        /\ \A k \in 1..(Len(calls) - 1) : calls[k].result.kind # "pending"
        /\ (pc = "await_chunk" =>
                /\ Len(calls) = idx + 1
                /\ calls[Len(calls)].result.kind = "pending")
        /\ (LoopOver => Len(ChunkCalls) = Len(chunks))

\* the call for chunk 1 failed and the calls for chunks 2 and 3 were still made
C6_Witness ==
    /\ LoopOver /\ Len(chunks) = 3 /\ Len(ChunkCalls) = 3
    /\ ChunkCalls[1].result.kind = "Err"
    /\ ChunkCalls[2].result.kind = "Ok"

(***************************************************************************)
(* C7: after the chunk loop, with exactly one surviving summary there is   *)
(* no combine call and that summary is the content to summarize; with two  *)
(* or more there is exactly one combine call, issued right after the last  *)
(* chunk call and before any final call, and its prompt body is the        *)
(* surviving summaries joined in order by the separator.                   *)
(***************************************************************************)
C7_Combination ==
    LoopOver =>
        /\ (Len(SucceededSummaries) = 1 =>
                /\ Positions("combine") = {}
                /\ content_to_summarize = SucceededSummaries[1]
                /\ \A k \in Positions("final") :
                      starts_with(calls[k].user,
                                  TranscriptOpen \o SucceededSummaries[1]
                                      \o TranscriptClose))
        /\ (Len(SucceededSummaries) >= 2 =>
                /\ Positions("combine") = {Len(chunks) + 1}
                /\ Embeds(calls[Len(chunks) + 1].user,
                          get_combine_user_prompt_template(language),
                          join(SucceededSummaries, Separator))
                /\ \A k \in Positions("final") : k > Len(chunks) + 1)

\* one summary survived out of three chunks and the final call was issued
C7_Witness ==
    /\ LoopOver /\ Len(chunks) = 3 /\ Len(SucceededSummaries) = 1
    /\ Positions("final") # {}

(***************************************************************************)
(* C8: a failed combine call is the last call of the run; the run has      *)
(* returned that call's error, the template was never resolved and no      *)
(* final call was issued.                                                  *)
(***************************************************************************)
C8_CombineFailureFatal ==
    \A k \in Positions("combine") :
        calls[k].result.kind = "Err" =>
            /\ k = Len(calls)
            /\ pc = "done"
            /\ result = [kind |-> "Err", error |-> calls[k].result.error]
            /\ template_log = << >>
            /\ Positions("final") = {}

\* the combine call failed after two or more chunk calls had succeeded
C8_Witness ==
    /\ Len(SucceededSummaries) >= 2
    /\ \E k \in Positions("combine") : calls[k].result.kind = "Err"

(***************************************************************************)
(* C9: the template is resolved at most once and only after the strategy   *)
(* branch has completed successfully (every earlier call answered, none of *)
(* them a final call and, in a MultiLevel run, all chunks processed, one   *)
(* summary surviving or the combine call succeeded); when the identifier   *)
(* does not resolve, the run has returned an error whose text contains the *)
(* identifier and no final call was ever issued.                           *)
(***************************************************************************)
C9_TemplateFailure ==
    /\ Len(template_log) <= 1
    /\ \A n \in 1..Len(template_log) :
          LET t == template_log[n]
          IN  /\ strategy # "none"
              /\ \A k \in 1..t.after_calls :
                    calls[k].role # "final" /\ calls[k].result.kind # "pending"
              /\ \A k \in Positions("final") : k > t.after_calls
              /\ (strategy = "MultiLevel" =>
                    /\ Len(ChunkCalls) = Len(chunks)
                    /\ Len(SucceededSummaries) >= 1
                    /\ (Len(SucceededSummaries) >= 2 =>
                          \E k \in Positions("combine") : calls[k].result.kind = "Ok"))
              /\ (~t.ok =>
                    /\ pc = "done"
                    /\ result.kind = "Err"
                    /\ contains(result.error, template_id)
                    /\ Positions("final") = {})
    /\ (get_template(template_id).kind = "Err" => Positions("final") = {})
    /\ (Positions("final") # {} => Len(template_log) = 1 /\ template_log[1].ok)

\* template resolution failed after the chunk calls and the combine call
C9_Witness ==
    /\ strategy = "MultiLevel" /\ pc = "done"
    /\ Len(template_log) = 1 /\ ~template_log[1].ok
    /\ Positions("combine") # {}

(***************************************************************************)
(* C10: at most one final call is ever issued and it is the last call of   *)
(* the run; an Ok result means that call was issued and succeeded and the  *)
(* markdown returned is its output sanitized; a failed final call means    *)
(* the run returned that error.                                            *)
(***************************************************************************)
C10_FinalCall ==
    /\ Cardinality(Positions("final")) <= 1
    /\ \A k \in Positions("final") :
          /\ k = Len(calls)
          /\ (calls[k].result.kind = "Err" =>
                pc = "done" /\ result = [kind |-> "Err", error |-> calls[k].result.error])
          /\ (calls[k].result.kind = "Ok" =>
                pc = "done" /\ result.kind = "Ok")
    /\ (result.kind = "Ok" =>
          /\ pc = "done"
          /\ Positions("final") = {Len(calls)}
          /\ calls[Len(calls)].result.kind = "Ok"
          /\ result.markdown = clean_llm_markdown_output(calls[Len(calls)].result.text)
          /\ result.chunk_count = successful_chunk_count)

\* the final call returned reasoning and a fenced report; the run returned
\* the bare report
C10_Witness ==
    /\ pc = "done" /\ result.kind = "Ok"
    /\ contains(calls[Len(calls)].result.text, <<"<", "t", "h", "i", "n", "k", ">">>)
    /\ result.markdown = <<"#", " ", "S", "t", "a", "n", "d", "u", "p">>

(***************************************************************************)
(* What the span history of a chunk_text run shows.                        *)
(***************************************************************************)
\* the character positions of the k-th chunk pushed
SpanPositions(k) == {p \in 0..(Len(c_text) - 1) : spans[k][1] <= p /\ p < spans[k][2]}

\* the number of characters chunks k and k + 1 share
Shared(k) == Cardinality(SpanPositions(k) \cap SpanPositions(k + 1))

\* the raw end of the window of the k-th chunk
RawEnd(k) ==
    IF spans[k][1] + chunk_size_tokens * 4 < Len(c_text)
    THEN spans[k][1] + chunk_size_tokens * 4 ELSE Len(c_text)

(***************************************************************************)
(* C11 as stated: two consecutive chunks share at most overlap_tokens * 4  *)
(* characters, and exactly that many whenever the earlier chunk ends at    *)
(* its raw window end.                                                     *)
(***************************************************************************)
C11_OverlapExact ==
    \A k \in 1..(Len(spans) - 1) :
        /\ Shared(k) <= overlap_tokens * 4
        /\ (spans[k][2] = RawEnd(k) => Shared(k) = overlap_tokens * 4)

(***************************************************************************)
(* C11, amended: two consecutive chunks share at most overlap_tokens * 4   *)
(* characters; when the earlier chunk ends at its raw window end they      *)
(* share exactly overlap_tokens * 4 if overlap_tokens < chunk_size_tokens, *)
(* and exactly chunk_size_tokens * 4 - 1 otherwise (the step is then 1).   *)
(***************************************************************************)
C11_OverlapBounded ==
    \A k \in 1..(Len(spans) - 1) :
        /\ Shared(k) <= overlap_tokens * 4
        /\ (spans[k][2] = RawEnd(k) =>
              Shared(k) = (IF overlap_tokens < chunk_size_tokens
                           THEN overlap_tokens * 4
                           ELSE chunk_size_tokens * 4 - 1))

\* two chunks, the first ending at its raw window end, share a non-empty overlap
C11_Witness ==
    /\ c_pc = "returned" /\ Len(spans) >= 2
    /\ 0 < overlap_tokens /\ overlap_tokens < chunk_size_tokens
    /\ spans[1][2] = RawEnd(1)
    /\ Shared(1) = overlap_tokens * 4

(***************************************************************************)
(* C12: every chunk chunk_text pushes has at most chunk_size_tokens * 4    *)
(* characters, texts without any whitespace included.                      *)
(***************************************************************************)
C12_ChunkWithinBudget ==
    \A k \in 1..Len(c_chunks) : Len(c_chunks[k]) <= chunk_size_tokens * 4

\* a text without whitespace, longer than the budget, was cut mid-word into
\* chunks the first of which fills the budget exactly
C12_Witness ==
    /\ c_pc = "returned" /\ Len(c_chunks) >= 2
    /\ \A p \in 1..Len(c_text) : ~is_whitespace(c_text[p])
    /\ Len(c_chunks[1]) = chunk_size_tokens * 4

(***************************************************************************)
(* C14: a chunk whose raw window end lies before the end of the text and   *)
(* whose window has whitespace at a position after the chunk's start, up   *)
(* to and including the raw end, ends at the last such position (so the    *)
(* character following the chunk is whitespace); every other chunk ends at *)
(* the raw window end.                                                     *)
(***************************************************************************)
WindowWhitespace(k) ==
    {b \in (spans[k][1] + 1)..RawEnd(k) :
        b < Len(c_text) /\ is_whitespace(c_text[b + 1])}

C15_NeighboursOnly ==
    /\ \A k \in 1..(Len(spans) - 1) : spans[k][1] < spans[k + 1][1]
    /\ \A i, j \in 1..Len(spans) :
          j >= i + 2 => SpanPositions(i) \cap SpanPositions(j) = {}

(***************************************************************************)
(* C15, amended: the chunks start at strictly increasing positions, and    *)
(* two chunks that are not neighbours never share a character provided     *)
(* 2 * overlap_tokens <= chunk_size_tokens.                                *)
(***************************************************************************)
C15_NeighboursOnlySmallOverlap ==
    /\ \A k \in 1..(Len(spans) - 1) : spans[k][1] < spans[k + 1][1]
    /\ (2 * overlap_tokens <= chunk_size_tokens =>
          \A i, j \in 1..Len(spans) :
              j >= i + 2 => SpanPositions(i) \cap SpanPositions(j) = {})

\* three chunks with a real overlap between neighbours
C15_Witness ==
    /\ c_pc = "returned" /\ Len(spans) >= 3
    /\ overlap_tokens >= 1 /\ 2 * overlap_tokens <= chunk_size_tokens
    /\ Shared(1) > 0

(***************************************************************************)
(* C16: chunk_text returns the empty sequence when the text is empty or    *)
(* chunk_size_tokens is 0, and otherwise exactly the whole text as one     *)
(* chunk when it has at most chunk_size_tokens * 4 characters, whatever    *)
(* overlap_tokens is.                                                      *)
(***************************************************************************)
C16_NonSliding ==
    c_pc = "returned" =>
        /\ ((c_text = << >> \/ chunk_size_tokens = 0) => c_chunks = << >>)
        /\ ((c_text # << >> /\ chunk_size_tokens > 0
               /\ Len(c_text) <= chunk_size_tokens * 4) => c_chunks = << c_text >>)

\* a text that fills the budget exactly came back whole although the overlap
\* is not smaller than the chunk size
C16_Witness ==
    /\ c_pc = "returned"
    /\ chunk_size_tokens > 0 /\ overlap_tokens >= chunk_size_tokens
    /\ Len(c_text) = chunk_size_tokens * 4
    /\ c_chunks = << c_text >>

(***************************************************************************)
(* C19: on the sliding-window path the loop condition never fails (the     *)
(* loop is left through the break only), the first chunk starts at 0, the  *)
(* last chunk returned ends at the end of the text and no chunk is empty.  *)
(***************************************************************************)
C19_ExitByBreak ==
    /\ c_exit # "cond"
    /\ (c_pc = "loop" => current_pos < Len(c_text))
    /\ (c_pc = "loop" \/ c_exit = "break" =>
          /\ \A k \in 1..Len(spans) : spans[k][1] < spans[k][2] /\ c_chunks[k] # << >>
          /\ (spans # << >> => spans[1][1] = 0))
    /\ (c_exit = "break" =>
          spans # << >> /\ spans[Len(spans)][2] = Len(c_text))

\* a sliding-window run of three or more chunks ended through the break
C19_Witness ==
    /\ c_exit = "break" /\ Len(spans) >= 3
    /\ spans[Len(spans)][2] = Len(c_text)

(***************************************************************************)
(* C13: chunk_text returns for every input; each pass of the loop that     *)
(* does not leave it moves the window start forward by                     *)
(* max(chunk_size_chars - overlap_chars, 1) >= 1, also when overlap_tokens *)
(* >= chunk_size_tokens; and the number of chunks is at most               *)
(* ceil(total_length / step).                                              *)
(***************************************************************************)
StepChars ==
    IF chunk_size_tokens * 4 - overlap_tokens * 4 > 1
    THEN chunk_size_tokens * 4 - overlap_tokens * 4 ELSE 1

C13_ChunkCountBound ==
    Len(c_chunks) * StepChars < Len(c_text) + StepChars

C13_Terminates ==
    /\ [] C13_ChunkCountBound
    /\ [][(c_pc = "loop" /\ c_pc' = "loop") =>
            (current_pos' = current_pos + StepChars /\ current_pos' > current_pos)]_vars
    /\ <>(c_pc = "returned")

\* a run with overlap_tokens >= chunk_size_tokens, stepping by 1, has returned
C13_Witness ==
    /\ c_pc = "returned"
    /\ chunk_size_tokens > 0 /\ overlap_tokens >= chunk_size_tokens
    /\ Len(spans) >= 3
    /\ spans[2][1] = spans[1][1] + 1

(***************************************************************************)
(* C17: clean_llm_markdown_output is idempotent: cleaning its own output   *)
(* returns that output unchanged.                                          *)
(***************************************************************************)
C17_Idempotent ==
    cl_pc = "again" => cleaned_again = cleaned

(***************************************************************************)
(* C18: the String clean_llm_markdown_output returns holds no reasoning    *)
(* block: no opening <think>/<thinking> tag with a closing                 *)
(* </think>/</thinking> tag after it.                                      *)
(***************************************************************************)
HasThinkBlock(s) ==
    \E i \in 1..Len(s) : \E j \in 1..Len(s) :
        \E o \in OpenTags : \E c \in CloseTags :
            /\ occurs_at(s, o, i)
            /\ j >= i + Len(o)
            /\ occurs_at(s, c, j)

C18_NoThinkBlock ==
    cl_pc \in {"returned", "again"} => ~HasThinkBlock(cleaned)

(***************************************************************************)
(* C20: for every token_threshold the MultiLevel branch computes the chunk *)
(* budget token_threshold - 300 as a positive integer without underflow,   *)
(* the chunk list is not empty, and the "No chunks were processed          *)
(* successfully" error is returned only after at least one chunk call was  *)
(* issued and failed.                                                      *)
(***************************************************************************)
C20_ChunkBudgetPositive ==
    strategy = "MultiLevel" =>
        /\ pc # "panicked"
        /\ token_threshold - PromptOverheadTokens >= 1
        /\ chunks # << >>
        /\ ((pc = "done" /\ result.kind = "Err" /\ contains(result.error, NoChunksText))
                => (ChunkCalls # << >>
                    /\ \A k \in 1..Len(ChunkCalls) : ChunkCalls[k].result.kind = "Err"))

(***************************************************************************)
(* C21 as stated: a MultiLevel run with token_threshold > 300 has at least *)
(* two chunks; after the loop there is no combine call only when some      *)
(* chunk call failed; and a finished run whose chunk calls all succeeded   *)
(* has issued exactly one call per chunk, one combine call and one final   *)
(* call.                                                                   *)
(***************************************************************************)
SomeChunkCallFailed == \E k \in 1..Len(ChunkCalls) : ChunkCalls[k].result.kind = "Err"

AllChunkCallsSucceeded == \A k \in 1..Len(ChunkCalls) : ChunkCalls[k].result.kind = "Ok"

MultiLevelAboveOverhead ==
    strategy = "MultiLevel" /\ token_threshold > PromptOverheadTokens

C21_TwoChunksFullRun ==
    MultiLevelAboveOverhead =>
        /\ Len(chunks) >= 2
        /\ ((LoopOver /\ CallsOf("combine") = << >>) => SomeChunkCallFailed)
        /\ ((pc = "done" /\ AllChunkCallsSucceeded) =>
                /\ Len(ChunkCalls) = Len(chunks)
                /\ Len(CallsOf("combine")) = 1
                /\ Len(CallsOf("final")) = 1
                /\ Len(calls) = Len(chunks) + 2)

(***************************************************************************)
(* C21, amended: a MultiLevel run with token_threshold > 300 has at least  *)
(* two chunks; after the loop there is no combine call only when some      *)
(* chunk call failed; and a finished run whose chunk calls all succeeded   *)
(* has issued exactly one call per chunk and one combine call, followed by *)
(* one final call when the combine call succeeded and the template was     *)
(* found, and by no final call otherwise.                                  *)
(***************************************************************************)
C21_TwoChunksCallCount ==
    MultiLevelAboveOverhead =>
        /\ Len(chunks) >= 2
        /\ ((LoopOver /\ CallsOf("combine") = << >>) => SomeChunkCallFailed)
        /\ ((pc = "done" /\ AllChunkCallsSucceeded) =>
                LET finals == IF /\ CallsOf("combine")[1].result.kind = "Ok"
                                 /\ get_template(template_id).kind = "Ok"
                              THEN 1 ELSE 0
                IN  /\ Len(ChunkCalls) = Len(chunks)
                    /\ Len(CallsOf("combine")) = 1
                    /\ Len(CallsOf("final")) = finals
                    /\ Len(calls) = Len(chunks) + 1 + finals)

\* a finished run at the smallest estimate that takes the MultiLevel branch:
\* every chunk call succeeded, then one combine call and one final call
C21_Witness ==
    /\ MultiLevelAboveOverhead /\ pc = "done" /\ result.kind = "Ok"
    /\ rough_token_count(text) = token_threshold
    /\ Len(chunks) >= 2 /\ AllChunkCallsSucceeded
    /\ Len(calls) = Len(chunks) + 2

(***************************************************************************)
(* C22: ask_question changes the stored chat history all-or-nothing: a     *)
(* call that returned an error has saved no message, a call that returned  *)
(* Ok has added exactly the user question and then the assistant answer,   *)
(* and until the LLM has answered nothing is saved.                        *)
(***************************************************************************)
C22_AllOrNothing ==
    /\ chat_pc \notin {"idle", "await_save_assistant", "done"} =>
            chat_messages = chat_messages0
    /\ (chat_pc = "done" /\ chat_result.kind = "Err") =>
            chat_messages = chat_messages0
    /\ (chat_pc = "done" /\ chat_result.kind = "Ok") =>
            chat_messages = chat_messages0
                \o <<ChatMessage(meeting_id, "user", question),
                      ChatMessage(meeting_id, "assistant", answer)>>

====
